---- MODULE Spec2Model ----
(***************************************************************************)
(* Model of clients.py: the batch job that geocodes client rows lacking a *)
(* geolocation row.  A run of process_clients is a process; the store     *)
(* (tables clients and geolocation) is shared by all runs.                *)
(*                                                                         *)
(* Python values: a dict is a record whose keys are its DOMAIN (a NULL    *)
(* column is an absent key), None is the record None, an optional int n   *)
(* is Some(n).                                                             *)
(***************************************************************************)
EXTENDS Bags, FiniteSets, Integers, Sequences, TLC

\* ------------------------------------------------------------------ bounds
NClients == 2        \* rows of the clients table
MaxLimit == 3        \* largest limit argument a caller passes
MaxInvocations == 2  \* invocations of process_clients in one behaviour
MaxCalls == 3        \* direct calls of save_geolocation in one behaviour
MaxResults == 2      \* longest result list of a provider response body

Runs == 1..2

VARIABLES
    config,        \* PG_CONFIG['host'] and GOOGLE_API_KEY: loaded or not
    clientsTable,  \* table clients, in the store's natural order
    geolocation,   \* table geolocation: a bag of committed rows
    dbFaulty,      \* environment: database calls may raise
    run,           \* per run: the locals of process_clients / save_geolocation
    hist,          \* per run: history of what the run has done (not program state)
    invocations,   \* number of process_clients invocations so far
    overlap,       \* history: some run started while another was executing
    succeeded,     \* history: client ids some run recorded as 'success'
    calls,         \* direct caller of save_geolocation: the last two calls
    ncalls,        \* direct caller: number of calls made
    response,      \* get_geolocation check: the provider response
    geoOut         \* get_geolocation check: its return value

vars == <<config, clientsTable, geolocation, dbFaulty, run, hist, invocations, overlap,
          succeeded, calls, ncalls, response, geoOut>>

\* ------------------------------------------------------------ Python values
None == [none |-> TRUE]
Some(n) == [value |-> n]
\* truth value of an Optional[int]: None and 0 are falsy
Truthy(v) == "value" \in DOMAIN v /\ v.value # 0

Min(a, b) == IF a < b THEN a ELSE b
Max(a, b) == IF a > b THEN a ELSE b

\* seq[:k] for an int k (a negative k counts from the end)
Slice(seq, k) ==
    IF k >= 0 THEN SubSeq(seq, 1, Min(k, Len(seq)))
    ELSE SubSeq(seq, 1, Max(Len(seq) + k, 0))

Digit(d) == <<"0", "1", "2", "3", "4", "5", "6", "7", "8", "9">>[d + 1]
RECURSIVE Str(_)
\* str(n) for a non-negative int
Str(n) == IF n < 10 THEN Digit(n) ELSE Str(n \div 10) \o Digit(n % 10)

RECURSIVE Join(_, _)
\* sep.join(parts)
Join(sep, parts) ==
    IF parts = <<>> THEN ""
    ELSE IF Len(parts) = 1 THEN parts[1]
    ELSE parts[1] \o sep \o Join(sep, Tail(parts))

\* dict.get(key, default)
Get(d, key, default) == IF key \in DOMAIN d THEN d[key] ELSE default

\* ------------------------------------------------------------------ the store
ClientIds == 1..NClients
OrphanId == NClients + 1   \* an id with a geolocation row and no clients row

\* The columns of clients row i; a NULL column is absent.
ClientColumns(i) ==
    IF i = 1 THEN [id |-> 1, address |-> "12 MG Road", city |-> "Bengaluru",
                   state |-> "Karnataka", pincode |-> 560001]
    ELSE IF i = 2 THEN [id |-> 2, city |-> "Pune", address |-> ""]
    ELSE [id |-> i]

ClientName(i) == "client" \o Str(i)

ClientRow(i, unnamed) ==
    IF i \in unnamed THEN ClientColumns(i)
    ELSE [k \in DOMAIN ClientColumns(i) \cup {"client_name"} |->
            IF k = "client_name" THEN ClientName(i) ELSE ClientColumns(i)[k]]

GeoRow(id, lat, lng, type) ==
    [id |-> id, latitude |-> lat, longitude |-> lng, type |-> type]

\* Rows the geolocation table may hold before the first run.
SeedRows ==
    {GeoRow(i, 0, 0, "client") : i \in ClientIds \cup {OrphanId}}
        \cup {GeoRow(1, 0, 0, "branch")}

ClientRowsOf(rows, id) ==
    BagCardinality([row \in {g \in BagToSet(rows) : g.id = id /\ g.type = "client"}
                      |-> rows[row]])

AtMostOneRowPerClient(rows) ==
    \A g \in BagToSet(rows) : g.type = "client" => ClientRowsOf(rows, g.id) <= 1

\* ---------------------------------------------- get_clients_without_geolocation
\* WITH ct AS (SELECT * FROM geolocation g WHERE type = 'client')
Ct(rows) == {g \in BagToSet(rows) : g.type = "client"}

\* main AS (SELECT c.* FROM ct LEFT JOIN public.clients c ON c.id = ct.id):
\* the clients columns of each ct row's match, all NULL when it has none.
MainOf(table, rows) ==
    {table[i] : i \in {j \in DOMAIN table : \E g \in Ct(rows) : g.id = table[j].id}}
        \cup (IF \E g \in Ct(rows) : \A j \in DOMAIN table : table[j].id # g.id
              THEN {[unmatched |-> TRUE]} ELSE {})

\* SELECT id FROM main WHERE id IS NOT NULL
MainIds(table, rows) == {m \in MainOf(table, rows) : "id" \in DOMAIN m}

\* x NOT IN (subquery): false or NULL when x is listed or the list holds a NULL
NotIn(x, main) ==
    /\ \A m \in main : "id" \in DOMAIN m
    /\ \A m \in main : m.id # x

GetClientsNoGeoFilter(table, rows) ==
    SelectSeq(table, LAMBDA c : "client_name" \in DOMAIN c)

GetClientsWithoutGeolocation(table, rows) ==
    SelectSeq(table, LAMBDA c : /\ "client_name" \in DOMAIN c
                                /\ NotIn(c.id, MainIds(table, rows)))

\* -------------------------------------------------------- build_address_string
Present(client, key) ==
    /\ key \in DOMAIN client
    /\ client[key] # (IF key = "pincode" THEN 0 ELSE "")

BuildAddressString(client) ==
    Join(", ",
         (IF Present(client, "address") THEN <<client.address>> ELSE <<>>)
      \o (IF Present(client, "city") THEN <<client.city>> ELSE <<>>)
      \o (IF Present(client, "state") THEN <<client.state>> ELSE <<>>)
      \o (IF Present(client, "pincode") THEN <<Str(client.pincode)>> ELSE <<>>)
      \o <<"India">>)

\* ---------------------------------------------------------------- get_geolocation
\* A provider response: the transport outcome and, when it succeeded, the
\* parsed JSON body.
RequestFailed == [transport |-> "RequestException", text |-> "timeout"]
Body(b) == [transport |-> "ok", body |-> b]

Result(lat, lng, addr) ==
    [geometry |-> [location |-> [lat |-> lat, lng |-> lng]], formatted_address |-> addr]
ResultWithPlace(lat, lng, addr, place) ==
    [geometry |-> [location |-> [lat |-> lat, lng |-> lng]], formatted_address |-> addr,
     place_id |-> place]

GeoSuccess(first) ==
    [latitude |-> first.geometry.location.lat,
     longitude |-> first.geometry.location.lng,
     formatted_address |-> first.formatted_address,
     place_id |-> Get(first, "place_id", "")]

GeoFailure(data) ==
    [error |-> Get(data, "status", "UNKNOWN"),
     message |-> Get(data, "error_message", "No results found")]

KeyError(key) == [error |-> "UNEXPECTED_ERROR", message |-> "'" \o key \o "'"]

\* lines 88-102: the parsed body's branch of get_geolocation
GeoOfBody(data) ==
    IF "status" \notin DOMAIN data THEN KeyError("status")
    ELSE IF data.status # "OK" THEN GeoFailure(data)
    ELSE IF "results" \notin DOMAIN data THEN KeyError("results")
    ELSE IF data.results # <<>> THEN GeoSuccess(data.results[1])
    ELSE GeoFailure(data)

GetGeolocation(resp) ==
    IF resp.transport # "ok"
    THEN [error |-> "API_REQUEST_FAILED", message |-> resp.text]
    ELSE GeoOfBody(resp.body)

\* The responses the provider gives during a run.
RunResponses ==
    {RequestFailed,
     Body([status |-> "OK",
           results |-> <<ResultWithPlace(12, 77, "MG Road, Bengaluru", "p1"),
                         Result(18, 73, "Pune")>>]),
     Body([status |-> "ZERO_RESULTS", results |-> <<>>])}

\* --------------------------------------------------------------- save_geolocation
\* SELECT id FROM geolocation WHERE id = %s AND type = 'client'; cur.fetchone()
ExistingNever(rows, id) == FALSE
ExistingAnyType(rows, id) == \E g \in BagToSet(rows) : g.id = id
Existing(rows, id) == \E g \in BagToSet(rows) : g.id = id /\ g.type = "client"

\* the row of INSERT INTO geolocation (id, latitude, longitude, type)
InsertedRow(id, geo) == GeoRow(id, geo.latitude, geo.longitude, "client")

\* A database statement succeeds, raises (rollback then succeeds), or raises on
\* a lost connection (rollback raises too).
DbOutcomes == IF dbFaulty THEN {"ok", "error", "connlost"} ELSE {"ok"}
\* connecting or the candidate query succeeds or raises psycopg2.Error
DbSucceeds == IF dbFaulty THEN BOOLEAN ELSE {TRUE}

\* ------------------------------------------------------------------ process_clients
Unset == [unset |-> TRUE]
List(seq) == [list |-> seq]

IdleRun ==
    [pc |-> "idle", limit |-> None, conn |-> "None", all_clients |-> <<>>,
     clients |-> <<>>, idx |-> 0, client_id |-> 0, address |-> "",
     geo_data |-> None,
     saved |-> FALSE, pending |-> <<>>, results |-> <<>>,
     success_count |-> 0, failed_count |-> 0, skipped_count |-> 0,
     retval |-> Unset]

NoHist ==
    [connects |-> 0, acquired |-> 0, closes |-> 0, storeOps |-> 0, opsAtClose |-> 0,
     apiCalls |-> 0, insertedIds |-> {}, saveOutcome |-> "none", errIdx |-> {},
     errors |-> FALSE, fetched |-> FALSE, prior |-> {}, raced |-> FALSE]

Active(r) == run[r].pc \notin {"idle", "done", "exited", "caller"}

\* the limit arguments a caller passes
Limits == {None} \cup {Some(k) : k \in -1..MaxLimit}

\* if not all([PG_CONFIG['host'], GOOGLE_API_KEY])
ConfigLoaded(cfg) == cfg.host /\ cfg.api_key

\* if limit: clients = all_clients[:limit] else: clients = all_clients
ApplyLimit(limit, all) == IF Truthy(limit) THEN Slice(all, limit.value) ELSE all

\* if geo_data and 'latitude' in geo_data
GeoIsSuccessAlways(geo) == TRUE
GeoIsSuccess(geo) == DOMAIN geo # {} /\ "latitude" \in DOMAIN geo

SuccessRecord(client, geo) ==
    [client_id |-> client.id, client_name |-> client.client_name, status |-> "success",
     latitude |-> geo.latitude, longitude |-> geo.longitude,
     formatted_address |-> geo.formatted_address]
SkippedRecord(client) ==
    [client_id |-> client.id, client_name |-> client.client_name, status |-> "skipped",
     reason |-> "Already exists in database"]
FailedRecord(client, geo) ==
    [client_id |-> client.id, client_name |-> client.client_name, status |-> "failed",
     error |-> Get(geo, "error", "Unknown"), message |-> Get(geo, "message", "N/A")]

\* lines 219-236: the outcome of a candidate whose geocoding succeeded
RecordSavedMiscount(L, client) ==
    IF L.saved
    THEN [L EXCEPT !.success_count = @ + 1,
                   !.results = Append(@, SuccessRecord(client, L.geo_data))]
    ELSE [L EXCEPT !.success_count = @ + 1,
                   !.results = Append(@, SkippedRecord(client))]
RecordSaved(L, client) ==
    IF L.saved
    THEN [L EXCEPT !.success_count = @ + 1,
                   !.results = Append(@, SuccessRecord(client, L.geo_data))]
    ELSE [L EXCEPT !.skipped_count = @ + 1,
                   !.results = Append(@, SkippedRecord(client))]

\* lines 237-249: the outcome of a candidate whose geocoding failed
RecordFailed(L, client) ==
    [L EXCEPT !.failed_count = @ + 1,
              !.results = Append(@, FailedRecord(client, L.geo_data))]

\* lines 252-265: the next candidate after the delay, or the summary and return
EndOfIteration(L) ==
    IF L.idx < Len(L.clients)
    THEN [L EXCEPT !.idx = @ + 1, !.pc = "geocode"]
    ELSE [L EXCEPT !.pc = "finally", !.retval = List(L.results)]

\* line 190: the return value when there is no candidate
ReturnOnEmptyResults(L) == List(L.results)
ReturnOnEmpty(L) == None

\* line 272: if conn
MustCloseNever(conn) == FALSE
MustClose(conn) == conn # "None"

Current(L) == L.clients[L.idx]

SetRun(r, L, H) ==
    /\ run' = [run EXCEPT ![r] = L]
    /\ hist' = [hist EXCEPT ![r] = H]

\* lines 153-165: process_clients(limit) is entered
Enter(r, lim) ==
    /\ run[r].pc = "idle"
    /\ invocations < MaxInvocations
    /\ invocations' = invocations + 1
    /\ overlap' = (overlap \/ \E o \in Runs \ {r} : Active(o))
    /\ SetRun(r,
              IF ConfigLoaded(config)
              THEN [IdleRun EXCEPT !.pc = "connect", !.limit = lim]
              ELSE [IdleRun EXCEPT !.pc = "done", !.limit = lim, !.retval = None],
              NoHist)
    /\ UNCHANGED <<config, clientsTable, geolocation, dbFaulty, succeeded, calls, ncalls,
                   response, geoOut>>

\* a caller passes any limit
Start(r) == \E lim \in Limits : Enter(r, lim)

\* lines 277-281: the script calls process_clients()
Main(r) == Enter(r, None)

\* line 170; a psycopg2.Error leaves conn None and is handled at line 267
Connect(r) ==
    /\ run[r].pc = "connect"
    /\ \E ok \in DbSucceeds :
          SetRun(r,
                 IF ok THEN [run[r] EXCEPT !.pc = "fetch", !.conn = "open"]
                 ELSE [run[r] EXCEPT !.pc = "finally", !.retval = None],
                 IF ok THEN [hist[r] EXCEPT !.connects = @ + 1, !.acquired = @ + 1]
                 ELSE [hist[r] EXCEPT !.connects = @ + 1, !.errors = TRUE])
    /\ UNCHANGED <<config, clientsTable, geolocation, dbFaulty, invocations, overlap, succeeded,
                   calls, ncalls, response, geoOut>>

\* lines 175-190
Fetch(r) ==
    /\ run[r].pc = "fetch"
    /\ \E ok \in DbSucceeds :
          LET all == GetClientsWithoutGeolocation(clientsTable, geolocation)
              cl == ApplyLimit(run[r].limit, all)
              L == [run[r] EXCEPT !.all_clients = all, !.clients = cl]
              H == [hist[r] EXCEPT !.storeOps = @ + 1, !.prior = succeeded,
                                   !.fetched = ok, !.errors = ~ok]
          IN  SetRun(r,
                     IF ~ok THEN [run[r] EXCEPT !.pc = "finally", !.retval = None]
                     ELSE IF cl = <<>>
                          THEN [L EXCEPT !.pc = "finally", !.retval = ReturnOnEmpty(L)]
                          ELSE [L EXCEPT !.pc = "geocode", !.idx = 1],
                     H)
    /\ UNCHANGED <<config, clientsTable, geolocation, dbFaulty, invocations, overlap, succeeded,
                   calls, ncalls, response, geoOut>>

\* lines 197-208, and lines 237-253 when geocoding failed
Geocode(r) ==
    /\ run[r].pc = "geocode"
    /\ \E resp \in RunResponses :
          LET client == Current(run[r])
              L == [run[r] EXCEPT !.client_id = client.id,
                                  !.address = BuildAddressString(client),
                                  !.geo_data = GetGeolocation(resp)]
          IN  SetRun(r,
                     IF GeoIsSuccess(L.geo_data)
                     THEN [L EXCEPT !.pc = "save_check"]
                     ELSE EndOfIteration(RecordFailed(L, client)),
                     [hist[r] EXCEPT !.apiCalls = @ + 1, !.saveOutcome = "none"])
    /\ UNCHANGED <<config, clientsTable, geolocation, dbFaulty, invocations, overlap, succeeded,
                   calls, ncalls, response, geoOut>>

\* lines 147-150: rollback, return False; on a lost connection rollback raises
SaveExcept(L, outcome) ==
    IF outcome = "connlost"
    THEN [L EXCEPT !.pending = <<>>, !.pc = "save_raised"]
    ELSE [L EXCEPT !.pending = <<>>, !.saved = FALSE, !.pc = "save_return"]

\* lines 124-130
SaveCheck(r) ==
    /\ run[r].pc = "save_check"
    /\ \E outcome \in DbOutcomes :
          SetRun(r,
                 IF outcome # "ok" THEN SaveExcept(run[r], outcome)
                 ELSE IF Existing(geolocation, run[r].client_id)
                      THEN [run[r] EXCEPT !.saved = FALSE, !.pc = "save_return"]
                      ELSE [run[r] EXCEPT !.pc = "save_insert"],
                 [hist[r] EXCEPT
                     !.storeOps = @ + 1,
                     !.raced = FALSE,
                     !.errors = @ \/ outcome # "ok",
                     !.saveOutcome =
                         IF outcome # "ok" THEN "error"
                         ELSE IF Existing(geolocation, run[r].client_id) THEN "exists"
                         ELSE "none"])
    /\ UNCHANGED <<config, clientsTable, geolocation, dbFaulty, invocations, overlap, succeeded,
                   calls, ncalls, response, geoOut>>

\* lines 133-142; geo_data['latitude'] of a dict without it raises KeyError
SaveInsert(r) ==
    /\ run[r].pc = "save_insert"
    /\ \E outcome \in DbOutcomes :
          LET failed == outcome # "ok" \/ ~GeoIsSuccess(run[r].geo_data)
          IN  SetRun(r,
                     IF failed
                     THEN SaveExcept(run[r], IF outcome = "ok" THEN "error" ELSE outcome)
                     ELSE [run[r] EXCEPT
                              !.pending = <<InsertedRow(run[r].client_id, run[r].geo_data)>>,
                              !.pc = "save_commit"],
                     [hist[r] EXCEPT !.storeOps = @ + 1,
                                     !.errors = @ \/ failed,
                                     !.saveOutcome = IF failed THEN "error" ELSE "none"])
    /\ UNCHANGED <<config, clientsTable, geolocation, dbFaulty, invocations, overlap, succeeded,
                   calls, ncalls, response, geoOut>>

\* lines 143-145: the pending row becomes visible to every connection
SaveCommit(r) ==
    /\ run[r].pc = "save_commit"
    /\ \E outcome \in DbOutcomes :
          IF outcome # "ok"
          THEN /\ run' = [run EXCEPT ![r] = SaveExcept(run[r], outcome)]
               /\ hist' = [hist EXCEPT ![r] = [@ EXCEPT !.storeOps = @ + 1,
                                                       !.errors = TRUE,
                                                       !.saveOutcome = "error"]]
               /\ UNCHANGED geolocation
          ELSE /\ geolocation' = geolocation (+) SetToBag({run[r].pending[1]})
               /\ run' = [run EXCEPT ![r] = [@ EXCEPT !.pending = <<>>, !.saved = TRUE,
                                                     !.pc = "save_return"]]
               /\ hist' = [o \in Runs |->
                             IF o = r
                             THEN [hist[r] EXCEPT
                                      !.storeOps = @ + 1,
                                      !.insertedIds = @ \cup {run[r].client_id},
                                      !.saveOutcome = "saved"]
                             ELSE IF /\ run[o].pc \in {"save_insert", "save_commit"}
                                     /\ run[o].client_id = run[r].client_id
                                  THEN [hist[o] EXCEPT !.raced = TRUE]
                                  ELSE hist[o]]
    /\ UNCHANGED <<config, clientsTable, dbFaulty, invocations, overlap, succeeded,
                   calls, ncalls, response, geoOut>>

\* lines 217-236 and 252-265: save_geolocation has returned
AfterSave(r) ==
    /\ run[r].pc = "save_return"
    /\ SetRun(r,
              EndOfIteration(RecordSaved(run[r], Current(run[r]))),
              [hist[r] EXCEPT !.errIdx = IF hist[r].saveOutcome = "error"
                                         THEN @ \cup {run[r].idx} ELSE @])
    /\ succeeded' = IF run[r].saved THEN succeeded \cup {run[r].client_id} ELSE succeeded
    /\ UNCHANGED <<config, clientsTable, geolocation, dbFaulty, invocations, overlap,
                   calls, ncalls, response, geoOut>>

\* lines 267-270: an exception left save_geolocation
SaveRaised(r) ==
    /\ run[r].pc = "save_raised"
    /\ SetRun(r, [run[r] EXCEPT !.pc = "finally", !.retval = None], hist[r])
    /\ UNCHANGED <<config, clientsTable, geolocation, dbFaulty, invocations, overlap, succeeded,
                   calls, ncalls, response, geoOut>>

\* lines 271-274
Finally(r) ==
    /\ run[r].pc = "finally"
    /\ SetRun(r,
              IF MustClose(run[r].conn)
              THEN [run[r] EXCEPT !.pc = "done", !.conn = "closed"]
              ELSE [run[r] EXCEPT !.pc = "done"],
              IF MustClose(run[r].conn)
              THEN [hist[r] EXCEPT !.closes = @ + 1, !.opsAtClose = hist[r].storeOps]
              ELSE hist[r])
    /\ UNCHANGED <<config, clientsTable, geolocation, dbFaulty, invocations, overlap, succeeded,
                   calls, ncalls, response, geoOut>>

\* process_clients has returned to its caller: its locals are gone
Exit(r) ==
    /\ run[r].pc = "done"
    /\ SetRun(r, IdleRun, NoHist)
    /\ UNCHANGED <<config, clientsTable, geolocation, dbFaulty, invocations, overlap, succeeded,
                   calls, ncalls, response, geoOut>>

\* lines 277-281: the script ends, and its process with it
Terminate(r) ==
    /\ run[r].pc = "done"
    /\ SetRun(r, [IdleRun EXCEPT !.pc = "exited"], NoHist)
    /\ UNCHANGED <<config, clientsTable, geolocation, dbFaulty, invocations, overlap,
                   succeeded, calls, ncalls, response, geoOut>>

NoCalls == [prev |-> None, last |-> None]

InitStore ==
    /\ \E unnamed \in SUBSET ClientIds :
          clientsTable = [i \in ClientIds |-> ClientRow(i, unnamed)]
    /\ \E seed \in SUBSET SeedRows : geolocation = SetToBag(seed)

Init ==
    /\ config \in [host : BOOLEAN, api_key : BOOLEAN]
    /\ InitStore
    /\ dbFaulty = TRUE
    /\ run = [r \in Runs |-> IdleRun]
    /\ hist = [r \in Runs |-> NoHist]
    /\ invocations = 0
    /\ overlap = FALSE
    /\ succeeded = {}
    /\ calls = NoCalls
    /\ ncalls = 0
    /\ response = None
    /\ geoOut = Unset

\* One caller invokes process_clients, one invocation at a time.
Next ==
    \/ Start(1)
    \/ Connect(1)
    \/ Fetch(1)
    \/ Geocode(1)
    \/ SaveCheck(1)
    \/ SaveInsert(1)
    \/ SaveCommit(1)
    \/ AfterSave(1)
    \/ SaveRaised(1)
    \/ Finally(1)
    \/ Exit(1)

Spec == Init /\ [][Next]_vars

\* The script is started by several processes, which may run simultaneously.
NextRace ==
    \E r \in Runs :
        \/ Main(r)
        \/ Connect(r)
        \/ Fetch(r)
        \/ Geocode(r)
        \/ SaveCheck(r)
        \/ SaveInsert(r)
        \/ SaveCommit(r)
        \/ AfterSave(r)
        \/ Finally(r)
        \/ Terminate(r)

\* The configuration is loaded, every client is named and the database answers.
InitRace ==
    /\ config = [host |-> TRUE, api_key |-> TRUE]
    /\ clientsTable = [i \in ClientIds |-> ClientRow(i, {})]
    /\ \E seed \in SUBSET SeedRows : geolocation = SetToBag(seed)
    /\ dbFaulty = FALSE
    /\ run = [r \in Runs |-> IdleRun]
    /\ hist = [r \in Runs |-> NoHist]
    /\ invocations = 0
    /\ overlap = FALSE
    /\ succeeded = {}
    /\ calls = NoCalls
    /\ ncalls = 0
    /\ response = None
    /\ geoOut = Unset

SpecRace == InitRace /\ [][NextRace]_vars

\* ----------------------------------------- save_geolocation called by itself
\* A caller holding an open connection calls save_geolocation(conn, id, geo)
\* again and again, one call at a time.
GeoSamples == {g \in {GetGeolocation(resp) : resp \in RunResponses} : GeoIsSuccess(g)}

DirectCall(r) ==
    /\ run[r].pc = "caller"
    /\ ncalls < MaxCalls
    /\ ncalls' = ncalls + 1
    /\ \E id \in ClientIds, geo \in GeoSamples :
          /\ SetRun(r, [run[r] EXCEPT !.client_id = id, !.geo_data = geo,
                                      !.pc = "save_check"],
                    [hist[r] EXCEPT !.saveOutcome = "none"])
          /\ calls' = [prev |-> calls.last,
                       last |-> [client_id |-> id,
                                 before |-> ClientRowsOf(geolocation, id),
                                 ret |-> "pending", outcome |-> "none",
                                 after |-> ClientRowsOf(geolocation, id)]]
    /\ UNCHANGED <<config, clientsTable, geolocation, dbFaulty, invocations, overlap,
                   succeeded, response, geoOut>>

DirectDone(r, ret) ==
    /\ SetRun(r, [run[r] EXCEPT !.pc = "caller"], hist[r])
    /\ calls' = [calls EXCEPT !.last =
                    [@ EXCEPT !.ret = ret, !.outcome = hist[r].saveOutcome,
                              !.after = ClientRowsOf(geolocation, run[r].client_id)]]
    /\ UNCHANGED <<config, clientsTable, geolocation, dbFaulty, invocations, overlap,
                   succeeded, ncalls, response, geoOut>>

\* the call returns True or False
DirectReturn(r) ==
    /\ run[r].pc = "save_return"
    /\ DirectDone(r, IF run[r].saved THEN "True" ELSE "False")

\* the call raises what conn.rollback() raised
DirectRaised(r) ==
    /\ run[r].pc = "save_raised"
    /\ DirectDone(r, "raised")

InitSave ==
    /\ config = [host |-> TRUE, api_key |-> TRUE]
    /\ clientsTable = [i \in ClientIds |-> ClientRow(i, {})]
    /\ \E seed \in SUBSET SeedRows : geolocation = SetToBag(seed)
    /\ dbFaulty = TRUE
    /\ run = [r \in Runs |-> IF r = 1 THEN [IdleRun EXCEPT !.pc = "caller", !.conn = "open"]
                             ELSE IdleRun]
    /\ hist = [r \in Runs |-> NoHist]
    /\ invocations = 0
    /\ overlap = FALSE
    /\ succeeded = {}
    /\ calls = NoCalls
    /\ ncalls = 0
    /\ response = None
    /\ geoOut = Unset

NextSave ==
    \/ DirectCall(1)
    \/ SaveCheck(1)
    \/ SaveInsert(1)
    \/ SaveCommit(1)
    \/ DirectReturn(1)
    \/ DirectRaised(1)

SpecSave == InitSave /\ [][NextSave]_vars

\* ------------------------------------------------- get_geolocation by itself
Absent == <<>>
Given(x) == <<x>>

\* a JSON object with the keys that are given
JsonBody(status, results, error_message) ==
    [k \in (IF status # Absent THEN {"status"} ELSE {})
            \cup (IF results # Absent THEN {"results"} ELSE {})
            \cup (IF error_message # Absent THEN {"error_message"} ELSE {}) |->
        IF k = "status" THEN status[1]
        ELSE IF k = "results" THEN results[1]
        ELSE error_message[1]]

ResultSamples ==
    {ResultWithPlace(12, 77, "MG Road, Bengaluru", "p1"),
     Result(18, 73, "Pune"),
     ResultWithPlace(28, 77, "Delhi", "p3")}

ResultLists == UNION {[1..n -> ResultSamples] : n \in 0..MaxResults}

Bodies ==
    {JsonBody(st, rs, em) :
        st \in {Absent, Given("OK"), Given("ZERO_RESULTS"), Given("REQUEST_DENIED")},
        rs \in {Absent} \cup {Given(l) : l \in ResultLists},
        em \in {Absent, Given("The provided API key is invalid.")}}

Responses == {RequestFailed} \cup {Body(b) : b \in Bodies}

CallGetGeolocation ==
    /\ geoOut = Unset
    /\ geoOut' = GetGeolocation(response)
    /\ UNCHANGED <<config, clientsTable, geolocation, dbFaulty, run, hist, invocations,
                   overlap, succeeded, calls, ncalls, response>>

\* the next request gets another response
NextRequest ==
    /\ geoOut # Unset
    /\ response' \in Responses
    /\ geoOut' = Unset
    /\ UNCHANGED <<config, clientsTable, geolocation, dbFaulty, run, hist, invocations,
                   overlap, succeeded, calls, ncalls>>

InitGeo ==
    /\ config = [host |-> TRUE, api_key |-> TRUE]
    /\ clientsTable = [i \in ClientIds |-> ClientRow(i, {})]
    /\ geolocation = EmptyBag
    /\ dbFaulty = FALSE
    /\ run = [r \in Runs |-> IdleRun]
    /\ hist = [r \in Runs |-> NoHist]
    /\ invocations = 0
    /\ overlap = FALSE
    /\ succeeded = {}
    /\ calls = NoCalls
    /\ ncalls = 0
    /\ response \in Responses
    /\ geoOut = Unset

NextGeo == CallGetGeolocation \/ NextRequest

SpecGeo == InitGeo /\ [][NextGeo]_vars

\* ======================================================================== claims
Statuses == {"success", "skipped", "failed"}
CountStatus(seq, st) == Cardinality({i \in DOMAIN seq : seq[i].status = st})
Returned(call) == call # None /\ call.ret # "pending"

\* C1 (SpecSave): calls of save_geolocation made one after another on a store
\* with at most one 'client' row per id leave at most one such row per id; a call
\* returns True only by adding the one row of an id that had none, any other
\* call leaves the id's rows as they were, a call for an id without a row saves
\* it unless the database raises, and the call after a saving call for the same
\* id finds the row and returns False without inserting.
C1_SaveOnce ==
    /\ AtMostOneRowPerClient(geolocation)
    /\ Returned(calls.last) =>
          /\ calls.last.ret = "True" => calls.last.before = 0 /\ calls.last.after = 1
          /\ calls.last.ret # "True" => calls.last.after = calls.last.before
          /\ calls.last.before = 0 /\ calls.last.outcome # "error"
                => calls.last.ret = "True"
    /\ ( /\ Returned(calls.prev) /\ Returned(calls.last)
         /\ calls.prev.client_id = calls.last.client_id
         /\ calls.prev.ret = "True" )
          => /\ calls.last.ret # "True"
             /\ calls.last.after = 1
             /\ calls.last.outcome # "error"
                   => calls.last.ret = "False" /\ calls.last.outcome = "exists"

\* saved, then skipped, for the same id
C1_Witness ==
    /\ Returned(calls.prev) /\ Returned(calls.last)
    /\ calls.prev.client_id = calls.last.client_id
    /\ calls.prev.ret = "True" /\ calls.prev.before = 0
    /\ calls.last.ret = "False" /\ calls.last.outcome = "exists"

\* C2 (Spec): a candidate whose save raised a database error is not recorded
\* with status 'skipped' (reason 'Already exists in database').
C2_SaveErrorIsNotSkipped ==
    \A r \in Runs : \A i \in hist[r].errIdx :
        i \in DOMAIN run[r].results => run[r].results[i].status # "skipped"

\* C3 as stated (Spec): an invocation that follows one which recorded 'success'
\* for a client, takes no limit and meets no error, ends with a 'skipped'
\* outcome for that client.
C3_SucceededBecomeSkipped ==
    \A r \in Runs :
        ( /\ run[r].pc = "done" /\ hist[r].fetched /\ ~hist[r].errors
          /\ run[r].limit = None )
          => \A c \in hist[r].prior :
                \E i \in DOMAIN run[r].results :
                    /\ run[r].results[i].client_id = c
                    /\ run[r].results[i].status = "skipped"

\* C3 as amended (Spec): a client recorded as 'success' before an invocation
\* fetches its candidates is not among those candidates, so the invocation
\* records no outcome for it (not 'skipped', not 'failed') and inserts no row
\* for it.
C3_SucceededAreNotCandidates ==
    \A r \in Runs : hist[r].fetched =>
        \A c \in hist[r].prior :
            /\ \A i \in DOMAIN run[r].all_clients : run[r].all_clients[i].id # c
            /\ \A i \in DOMAIN run[r].results : run[r].results[i].client_id # c
            /\ \A i \in DOMAIN run[r].pending : run[r].pending[i].id # c
            /\ c \notin hist[r].insertedIds

\* a second invocation has processed other clients to the end
C3_Witness ==
    \E r \in Runs :
        /\ run[r].pc = "done" /\ hist[r].fetched /\ hist[r].prior # {}
        /\ "list" \in DOMAIN run[r].retval
        /\ run[r].retval.list # <<>>

\* C4 (Spec): the returned sequence holds one record per processed candidate,
\* in the candidates' order, each with one of the three statuses, and each
\* counter equals the number of records of its status, the three adding up to
\* the number of candidates.
C4_OneOutcomePerCandidate ==
    \A r \in Runs : "list" \in DOMAIN run[r].retval =>
        LET out == run[r].retval.list IN
        /\ Len(out) = Len(run[r].clients)
        /\ \A i \in DOMAIN out :
              /\ out[i].client_id = run[r].clients[i].id
              /\ out[i].client_name = run[r].clients[i].client_name
              /\ out[i].status \in Statuses
        /\ run[r].success_count = CountStatus(out, "success")
        /\ run[r].skipped_count = CountStatus(out, "skipped")
        /\ run[r].failed_count = CountStatus(out, "failed")
        /\ run[r].success_count + run[r].skipped_count + run[r].failed_count
              = Len(run[r].clients)

\* two candidates, two different outcomes, one of them skipped
C4_Witness ==
    \E r \in Runs :
        /\ "list" \in DOMAIN run[r].retval
        /\ Len(run[r].retval.list) >= 2
        /\ run[r].skipped_count = 1
        /\ run[r].retval.list[1].status # run[r].retval.list[2].status

\* C5 (Spec): a connection that was acquired is closed once, after the run's
\* last store operation, however the run ends; with the configuration missing
\* the run connects to nothing, queries nothing and calls no API.
C5_ConnectionReleasedOnce ==
    \A r \in Runs :
        /\ hist[r].acquired <= 1 /\ hist[r].closes <= hist[r].acquired
        /\ hist[r].closes = 1 => hist[r].opsAtClose = hist[r].storeOps
        /\ run[r].pc = "done" =>
              /\ hist[r].closes = hist[r].acquired
              /\ hist[r].acquired = 1 <=> run[r].conn = "closed"
        /\ (run[r].pc # "idle" /\ ~ConfigLoaded(config)) =>
              /\ run[r].pc = "done" /\ run[r].conn = "None"
              /\ hist[r].connects = 0 /\ hist[r].storeOps = 0 /\ hist[r].apiCalls = 0

\* a run that an error ended in the middle of its loop has closed its connection
C5_Witness ==
    \E r \in Runs :
        /\ run[r].pc = "done" /\ hist[r].closes = 1
        /\ run[r].retval = None /\ run[r].results # <<>>

\* C6 as stated (Spec): when no client lacks a geolocation row,
\* process_clients returns an empty outcome sequence.
C6_EmptyReturnsEmptySequence ==
    \A r \in Runs :
        (run[r].pc = "done" /\ hist[r].fetched /\ run[r].all_clients = <<>>)
            => run[r].retval = List(<<>>)

\* C6 as amended (Spec): with no candidate, process_clients returns None (no
\* sequence at all), having called no API and written nothing: its one store
\* operation is the candidate query.
C6_EmptyReturnsNone ==
    \A r \in Runs :
        (run[r].pc \in {"finally", "done"} /\ hist[r].fetched /\ run[r].clients = <<>>)
            => /\ run[r].retval = None
               /\ run[r].results = <<>>
               /\ hist[r].apiCalls = 0
               /\ hist[r].insertedIds = {}
               /\ hist[r].storeOps = 1

\* no client lacks a geolocation row
C6_Witness ==
    \E r \in Runs :
        /\ run[r].pc = "done" /\ hist[r].fetched
        /\ run[r].all_clients = <<>> /\ run[r].clients = <<>>
        /\ \E i \in DOMAIN clientsTable : "client_name" \in DOMAIN clientsTable[i]

\* C7 (Spec): with a limit k >= 0 the processed candidates are the first
\* min(k, n) of the n fetched, and no more than k are geocoded; without a
\* limit, all n are processed.
C7_LimitTakesPrefix ==
    \A r \in Runs : hist[r].fetched =>
        IF run[r].limit = None THEN run[r].clients = run[r].all_clients
        ELSE run[r].limit.value >= 0 =>
                /\ run[r].clients =
                      SubSeq(run[r].all_clients, 1,
                             Min(run[r].limit.value, Len(run[r].all_clients)))
                /\ hist[r].apiCalls <= run[r].limit.value

\* C8 (SpecRace): two 'client' rows for one id arise only when runs overlap: a
\* run inserts only after its check found no row for the id, so a row that is
\* there when the run is about to insert or commit was committed by another
\* run after that check.
C8_DuplicateOnlyByRace ==
    /\ \A id \in ClientIds : ClientRowsOf(geolocation, id) > 1 => overlap
    /\ \A r \in Runs :
          ( /\ run[r].pc \in {"save_insert", "save_commit"}
            /\ ClientRowsOf(geolocation, run[r].client_id) > 0 )
              => hist[r].raced

\* both runs passed the check and both inserted
C8_Witness ==
    \E id \in ClientIds :
        /\ ClientRowsOf(geolocation, id) = 2
        /\ \A r \in Runs : id \in hist[r].insertedIds

\* C9 (Spec): the step that geocodes a candidate and gets a failure leaves the
\* store and the run's store operations as they were, appends the one 'failed'
\* record carrying the failure's error and message, counts it, and goes on to
\* the next candidate (to the summary after the last); save_geolocation is
\* entered only with a geocoding success.
C9_FailureStep(r) ==
    ( /\ run[r].pc = "geocode" /\ run'[r] # run[r]
      /\ "latitude" \notin DOMAIN run'[r].geo_data )
      => /\ geolocation' = geolocation
         /\ hist'[r].storeOps = hist[r].storeOps
         /\ hist'[r].insertedIds = hist[r].insertedIds
         /\ run'[r].pending = <<>>
         /\ run'[r].results =
               Append(run[r].results,
                      [client_id |-> run[r].clients[run[r].idx].id,
                       client_name |-> run[r].clients[run[r].idx].client_name,
                       status |-> "failed",
                       error |-> run'[r].geo_data.error,
                       message |-> run'[r].geo_data.message])
         /\ run'[r].failed_count = run[r].failed_count + 1
         /\ run'[r].success_count = run[r].success_count
         /\ run'[r].skipped_count = run[r].skipped_count
         /\ IF run[r].idx < Len(run[r].clients)
            THEN run'[r].pc = "geocode" /\ run'[r].idx = run[r].idx + 1
            ELSE run'[r].pc = "finally" /\ run'[r].retval = List(run'[r].results)

\* C9 (Spec): every step of every run is such a step, and the writer is only
\* ever entered with a geocoding success.
C9_FailureIsRecordedOnly ==
    /\ [][\A r \in Runs : C9_FailureStep(r)]_vars
    /\ [](\A r \in Runs :
            run[r].pc \in {"save_check", "save_insert", "save_commit", "save_return"}
                => "latitude" \in DOMAIN run[r].geo_data)

\* a failed candidate, and the candidate after it processed too
C9_Witness ==
    \E r \in Runs :
        /\ Len(run[r].results) >= 2
        /\ run[r].results[1].status = "failed"
        /\ geolocation # EmptyBag

\* C10 (SpecGeo): for a parsed body, Success of the first result exactly when
\* status is 'OK' and the result list is non-empty; otherwise Failure with the
\* body's status, or 'UNKNOWN' when it has none, and the body's error_message,
\* or 'No results found'.
C10_StatusAndResultsDecide ==
    (geoOut # Unset /\ response.transport = "ok") =>
        LET data == response.body IN
        geoOut = IF Get(data, "status", "UNKNOWN") = "OK" /\ Get(data, "results", <<>>) # <<>>
                 THEN GeoSuccess(data.results[1])
                 ELSE [error |-> Get(data, "status", "UNKNOWN"),
                       message |-> Get(data, "error_message", "No results found")]

====
